---- MODULE Spec2Model ----
(***************************************************************************)
(* The Raft consensus simulation of src/learning/expert/distributed-system.js *)
(* (RaftNode, RaftCluster, NetworkSimulator, PersistentState, LogEntry) as  *)
(* a state machine.  One action per timer callback, per message handler     *)
(* and per client call; every handler is translated with the calls it      *)
(* makes (becomeFollower, becomeLeader, sendHeartbeats, updateCommitIndex,  *)
(* applyCommittedEntries, cluster.send and its vote tally).                 *)
(*                                                                          *)
(* Log indices are the source's: 0-based, -1 for "none".  The entry with    *)
(* index i is element i + 1 of the TLA+ sequence.                           *)
(***************************************************************************)
EXTENDS Integers, Sequences, FiniteSets, Bags, TLC

\* NodeState (distributed-system.js:27-31)
FOLLOWER == "FOLLOWER"
CANDIDATE == "CANDIDATE"
LEADER == "LEADER"

\* MessageType (distributed-system.js:37-43)
REQUEST_VOTE == "REQUEST_VOTE"
REQUEST_VOTE_RESPONSE == "REQUEST_VOTE_RESPONSE"
APPEND_ENTRIES == "APPEND_ENTRIES"
APPEND_ENTRIES_RESPONSE == "APPEND_ENTRIES_RESPONSE"

\* votedFor = null (node ids are 0 .. N-1, the i of `node-${i}`)
Null == -1

\* A budget of the environment that never runs out: an interval timer fires
\* for as long as it is set, and a run need not end.
NoLimit == -1

\* ---------------------------------------------------------------- bounds
\* Shutdown calls in one run, and the number of events (timer expiries,
\* message deliveries, client calls) in one run of each specification.
MaxShutdowns == 1
MaxSteps == 11
FourElectionSteps == 22
TwinSteps == 14
DeposedSteps == 14
ClientSteps == 7
OldTermSteps == 17
PartitionSteps == 8
FirstLeaderSteps == 12
SecondTwinSteps == 13
FaultFreeCalls == 2
DeposingSteps == 11
TwinHeartbeatSteps == 10
TwinCrashSteps == 14
CommittedSteps == 12
FiveElectionSteps == 15
FiveCommitSteps == 14
MaxNodes == 3
MaxSoloElections == 2
\* Terms and log lengths of the receiver and the candidate of one RequestVote
MaxVoteTerm == 3
MaxVoteLog == 2
MaxAppendTerm == 2

VARIABLES
    nodes,      \* RaftCluster.nodes: node id -> the RaftNode's fields
    votes,      \* RaftCluster.votes: candidate id -> set of voter ids
    network,    \* NetworkSimulator: the bag of messages whose delivery timeout is pending
    calls,      \* the submitCommand promises, in call order
    crashed,    \* an exception escaped a timer callback: the process is gone
    env,        \* what the environment may still do (timer expiries, client calls)
    granted,    \* history: <<voter, candidate, term>> of every vote cast
    elected,    \* history: every becomeLeader, with the tally it counted
    committed,  \* history: every (index, entry) a node committed, with the node's term
    stopped     \* history: the nodes whose shutdown() has been called

vars == <<nodes, votes, network, calls, crashed, env, granted, elected, committed,
          stopped>>

NodeIds == DOMAIN nodes
getNodeCount == Cardinality(NodeIds)
Others(n) == NodeIds \ {n}

\* ------------------------------------------------------- PersistentState
setTerm(s, term) == [s EXCEPT !.currentTerm = term, !.votedFor = Null]

vote(s, candidateId) == [s EXCEPT !.votedFor = candidateId]

appendEntry(log, entry) == Append(log, entry)

getLastLogIndex(s) == Len(s.log) - 1

getLastLogTerm(s) == IF Len(s.log) = 0 THEN 0 ELSE s.log[Len(s.log)].term

\* getEntry(index) is log[index]: undefined outside 0 .. length-1
hasEntry(s, index) == index >= 0 /\ index < Len(s.log)

getEntry(s, index) == s.log[index + 1]

\* deleteEntriesFrom that keeps the entry at index
deleteEntriesFromAfter(log, index) == SubSeq(log, 1, index + 1)

deleteEntriesFrom(log, index) == SubSeq(log, 1, index)

\* LogEntry
LogEntry(term, command, index) == [term |-> term, command |-> command, index |-> index]

\* ------------------------------------------------------------- timers
resetElectionTimer(s) == [s EXCEPT !.electionTimer = TRUE]

stopElectionTimer(s) == [s EXCEPT !.electionTimer = FALSE]

\* setInterval without clearing a handle that is still set: the old interval
\* keeps firing and can no longer be cleared.
startHeartbeatTimer(s) ==
    [s EXCEPT !.leakedHeartbeats = IF s.heartbeatTimer THEN @ + 1 ELSE @,
              !.heartbeatTimer = TRUE]

stopHeartbeatTimer(s) == [s EXCEPT !.heartbeatTimer = FALSE]

\* ---------------------------------------------------- state transitions
becomeFollower(s, term) ==
    resetElectionTimer(stopHeartbeatTimer(
        setTerm([s EXCEPT !.currentState = FOLLOWER], term)))

votesNeeded == (getNodeCount \div 2) + 1

\* --------------------------------------------------------- replication
\* sendAppendEntries reads getEntry(prevLogIndex).term: a TypeError when the
\* entry is not there.
sendAppendEntriesThrows(s, followerId) ==
    LET prevLogIndex == s.nextIndex[followerId] - 1
    IN  prevLogIndex >= 0 /\ ~hasEntry(s, prevLogIndex)

sendAppendEntries(s, n, followerId) ==
    LET prevLogIndex == s.nextIndex[followerId] - 1
        prevLogTerm == IF prevLogIndex >= 0 THEN getEntry(s, prevLogIndex).term ELSE 0
    IN  [type |-> APPEND_ENTRIES, from |-> n, to |-> followerId,
         term |-> s.currentTerm, prevLogIndex |-> prevLogIndex,
         prevLogTerm |-> prevLogTerm,
         entries |-> SubSeq(s.log, s.nextIndex[followerId] + 1, Len(s.log)),
         leaderCommit |-> s.commitIndex]

sendHeartbeatsThrows(s, n) ==
    s.currentState = LEADER /\ \E f \in Others(n) : sendAppendEntriesThrows(s, f)

sendHeartbeats(s, n) ==
    IF s.currentState # LEADER THEN {}
    ELSE {sendAppendEntries(s, n, f) : f \in Others(n)}

becomeLeader(s, n) ==
    LET s1 == stopElectionTimer([s EXCEPT !.currentState = LEADER])
        s2 == [s1 EXCEPT !.nextIndex = [f \in Others(n) |-> Len(s.log)],
                         !.matchIndex = [f \in Others(n) |-> -1]]
    IN  [node |-> startHeartbeatTimer(s2), out |-> sendHeartbeats(s2, n)]

\* applyCommittedEntries: emit('commandApplied', entry) for lastApplied+1 ..
\* commitIndex.  The cluster's listener reads entry.command (line 531): a
\* TypeError when the entry is not there.
applyCommittedEntriesThrows(s) ==
    s.lastApplied < s.commitIndex /\ ~hasEntry(s, s.commitIndex)

\* applyCommittedEntries that emits the entry at commitIndex alone
applyCommittedEntriesLast(s) ==
    IF s.lastApplied < s.commitIndex
    THEN [s EXCEPT !.applied = Append(@, getEntry(s, s.commitIndex)),
                   !.lastApplied = s.commitIndex]
    ELSE s

applyCommittedEntries(s) ==
    IF s.lastApplied < s.commitIndex
    THEN [s EXCEPT !.applied = @ \o SubSeq(s.log, s.lastApplied + 2, s.commitIndex + 1),
                   !.lastApplied = s.commitIndex]
    ELSE s

\* the element at ceil(length / 2) - 1 instead: half of an even cluster
majorityIndexHalf(s) ==
    LET own == getLastLogIndex(s)
        AtLeast(v) == Cardinality({f \in DOMAIN s.matchIndex : s.matchIndex[f] >= v})
                      + (IF own >= v THEN 1 ELSE 0)
        size == Cardinality(DOMAIN s.matchIndex) + 1
        k == (size + 1) \div 2
        values == {s.matchIndex[f] : f \in DOMAIN s.matchIndex} \cup {own}
    IN  CHOOSE v \in values :
            /\ AtLeast(v) >= k
            /\ \A w \in values : AtLeast(w) >= k => w <= v

\* indices sorted descending, element floor(length / 2): the k-th largest of
\* the followers' matchIndex and the leader's own last index, k = floor(N/2)+1
majorityIndex(s) ==
    LET own == getLastLogIndex(s)
        AtLeast(v) == Cardinality({f \in DOMAIN s.matchIndex : s.matchIndex[f] >= v})
                      + (IF own >= v THEN 1 ELSE 0)
        size == Cardinality(DOMAIN s.matchIndex) + 1
        k == (size \div 2) + 1
        values == {s.matchIndex[f] : f \in DOMAIN s.matchIndex} \cup {own}
    IN  CHOOSE v \in values :
            /\ AtLeast(v) >= k
            /\ \A w \in values : AtLeast(w) >= k => w <= v

updateCommitIndexThrows(s) ==
    LET m == majorityIndex(s)
    IN  m > s.commitIndex /\ ~hasEntry(s, m)

\* updateCommitIndex without the test of the entry's term
updateCommitIndexAnyTerm(s) ==
    LET m == majorityIndex(s)
    IN  IF m > s.commitIndex
        THEN applyCommittedEntries([s EXCEPT !.commitIndex = m])
        ELSE s

updateCommitIndex(s) ==
    LET m == majorityIndex(s)
    IN  IF m > s.commitIndex /\ getEntry(s, m).term = s.currentTerm
        THEN applyCommittedEntries([s EXCEPT !.commitIndex = m])
        ELSE s

\* -------------------------------------------------------------- election
\* startElection that does not vote for itself
startElectionWithoutVote(s, n) ==
    LET s1 == setTerm([s EXCEPT !.currentState = CANDIDATE], s.currentTerm + 1)
    IN  [node |-> resetElectionTimer(s1),
         out |-> {[type |-> REQUEST_VOTE, from |-> n, to |-> f,
                   term |-> s1.currentTerm, candidateId |-> n,
                   lastLogIndex |-> getLastLogIndex(s1),
                   lastLogTerm |-> getLastLogTerm(s1)] : f \in Others(n)}]

startElection(s, n) ==
    LET s1 == vote(setTerm([s EXCEPT !.currentState = CANDIDATE], s.currentTerm + 1), n)
    IN  [node |-> resetElectionTimer(s1),
         out |-> {[type |-> REQUEST_VOTE, from |-> n, to |-> f,
                   term |-> s1.currentTerm, candidateId |-> n,
                   lastLogIndex |-> getLastLogIndex(s1),
                   lastLogTerm |-> getLastLogTerm(s1)] : f \in Others(n)}]

\* the up-to-date test on the last index alone
candidateLogLongEnough(s, lastLogIndex, lastLogTerm) ==
    lastLogIndex >= getLastLogIndex(s)

candidateLogUpToDate(s, lastLogIndex, lastLogTerm) ==
    \/ lastLogTerm > getLastLogTerm(s)
    \/ (lastLogTerm = getLastLogTerm(s) /\ lastLogIndex >= getLastLogIndex(s))

\* handleRequestVote without its stale-term test: any other term is adopted
handleRequestVoteAnyTerm(s, n, m) ==
    LET s1 == IF m.term # s.currentTerm THEN becomeFollower(s, m.term) ELSE s
        votedForNone == s1.votedFor = Null
        votedForCandidate == s1.votedFor = m.candidateId
        grant == (votedForNone \/ votedForCandidate)
                 /\ candidateLogUpToDate(s1, m.lastLogIndex, m.lastLogTerm)
        s2 == IF grant THEN resetElectionTimer(vote(s1, m.candidateId)) ELSE s1
    IN  [node |-> s2, voteGranted |-> grant,
         out |-> {[type |-> REQUEST_VOTE_RESPONSE, from |-> n, to |-> m.from,
                   term |-> s2.currentTerm, voteGranted |-> grant]}]

handleRequestVote(s, n, m) ==
    IF m.term < s.currentTerm
    THEN [node |-> s, voteGranted |-> FALSE,
          out |-> {[type |-> REQUEST_VOTE_RESPONSE, from |-> n, to |-> m.from,
                    term |-> s.currentTerm, voteGranted |-> FALSE]}]
    ELSE
        LET s1 == IF m.term > s.currentTerm THEN becomeFollower(s, m.term) ELSE s
            votedForNone == s1.votedFor = Null
            votedForCandidate == s1.votedFor = m.candidateId
            grant == (votedForNone \/ votedForCandidate)
                     /\ candidateLogUpToDate(s1, m.lastLogIndex, m.lastLogTerm)
            s2 == IF grant THEN resetElectionTimer(vote(s1, m.candidateId)) ELSE s1
        IN  [node |-> s2, voteGranted |-> grant,
             out |-> {[type |-> REQUEST_VOTE_RESPONSE, from |-> n, to |-> m.from,
                       term |-> s2.currentTerm, voteGranted |-> grant]}]

\* votesReceived is the size of the cluster's tally for this candidate
handleRequestVoteResponse(s, n, m, votesReceived) ==
    IF s.currentState # CANDIDATE THEN [node |-> s, out |-> {}, won |-> FALSE]
    ELSE IF m.term > s.currentTerm
    THEN [node |-> becomeFollower(s, m.term), out |-> {}, won |-> FALSE]
    ELSE IF m.term = s.currentTerm /\ m.voteGranted /\ votesReceived >= votesNeeded
    THEN [node |-> becomeLeader(s, n).node, out |-> becomeLeader(s, n).out, won |-> TRUE]
    ELSE [node |-> s, out |-> {}, won |-> FALSE]

\* ------------------------------------------------------- AppendEntries
\* the append loop that leaves an entry of another term where it is
RECURSIVE appendLoopKeepsConflict(_, _, _)
appendLoopKeepsConflict(log, entries, logIndex) ==
    IF entries = << >> THEN log
    ELSE IF logIndex < Len(log)
         THEN appendLoopKeepsConflict(log, Tail(entries), logIndex + 1)
         ELSE appendLoopKeepsConflict(appendEntry(log, Head(entries)), Tail(entries),
                                      logIndex + 1)

RECURSIVE appendLoop(_, _, _)
appendLoop(log, entries, logIndex) ==
    IF entries = << >> THEN log
    ELSE LET entry == Head(entries)
         IN  IF logIndex < Len(log)
             THEN IF log[logIndex + 1].term # entry.term
                  THEN appendLoop(appendEntry(deleteEntriesFrom(log, logIndex), entry),
                                  Tail(entries), logIndex + 1)
                  ELSE appendLoop(log, Tail(entries), logIndex + 1)
             ELSE appendLoop(appendEntry(log, entry), Tail(entries), logIndex + 1)

\* the consistency check on the index alone: the term there is not compared
logConsistentIndexOnly(s, prevLogIndex, prevLogTerm) ==
    \/ prevLogIndex = -1
    \/ prevLogIndex < Len(s.log)

logConsistent(s, prevLogIndex, prevLogTerm) ==
    \/ prevLogIndex = -1
    \/ (prevLogIndex < Len(s.log) /\ getEntry(s, prevLogIndex).term = prevLogTerm)

\* the commit update that never moves commitIndex
updateFollowerCommitNever(s, leaderCommit) == s

\* the commit update that takes the receiver's last index, whatever leaderCommit
updateFollowerCommitToLast(s, leaderCommit) ==
    IF leaderCommit > s.commitIndex
    THEN applyCommittedEntries([s EXCEPT !.commitIndex = getLastLogIndex(s)])
    ELSE s

\* the commit update without its leaderCommit > commitIndex test
updateFollowerCommitAlways(s, leaderCommit) ==
    LET c == IF leaderCommit < getLastLogIndex(s) THEN leaderCommit
             ELSE getLastLogIndex(s)
    IN  applyCommittedEntries([s EXCEPT !.commitIndex = c])

updateFollowerCommit(s, leaderCommit) ==
    IF leaderCommit > s.commitIndex
    THEN LET c == IF leaderCommit < getLastLogIndex(s) THEN leaderCommit
                  ELSE getLastLogIndex(s)
         IN  applyCommittedEntries([s EXCEPT !.commitIndex = c])
    ELSE s

\* handleAppendEntries without its stale-term test: any other term is adopted
handleAppendEntriesAnyTerm(s, n, m) ==
    LET s1 == IF m.term # s.currentTerm THEN becomeFollower(s, m.term) ELSE s
        s2 == IF s1.currentState = CANDIDATE THEN becomeFollower(s1, m.term) ELSE s1
        s3 == resetElectionTimer(s2)
        success == logConsistent(s3, m.prevLogIndex, m.prevLogTerm)
        s4 == IF success
              THEN updateFollowerCommit(
                       [s3 EXCEPT !.log = appendLoop(s3.log, m.entries, m.prevLogIndex + 1)],
                       m.leaderCommit)
              ELSE s3
    IN  [node |-> s4,
         out |-> {[type |-> APPEND_ENTRIES_RESPONSE, from |-> n, to |-> m.from,
                   term |-> s4.currentTerm, success |-> success,
                   matchIndex |-> IF success THEN m.prevLogIndex + Len(m.entries)
                                  ELSE -1]}]

\* handleAppendEntries that adopts a greater term without becoming Follower
handleAppendEntriesKeepsRole(s, n, m) ==
    IF m.term < s.currentTerm
    THEN [node |-> s,
          out |-> {[type |-> APPEND_ENTRIES_RESPONSE, from |-> n, to |-> m.from,
                    term |-> s.currentTerm, success |-> FALSE, matchIndex |-> -1]}]
    ELSE
        LET s1 == IF m.term > s.currentTerm THEN setTerm(s, m.term) ELSE s
            s3 == resetElectionTimer(s1)
            success == logConsistent(s3, m.prevLogIndex, m.prevLogTerm)
            s4 == IF success
                  THEN updateFollowerCommit(
                           [s3 EXCEPT !.log = appendLoop(s3.log, m.entries, m.prevLogIndex + 1)],
                           m.leaderCommit)
                  ELSE s3
        IN  [node |-> s4,
             out |-> {[type |-> APPEND_ENTRIES_RESPONSE, from |-> n, to |-> m.from,
                       term |-> s4.currentTerm, success |-> success,
                       matchIndex |-> IF success THEN m.prevLogIndex + Len(m.entries)
                                      ELSE -1]}]

handleAppendEntries(s, n, m) ==
    IF m.term < s.currentTerm
    THEN [node |-> s,
          out |-> {[type |-> APPEND_ENTRIES_RESPONSE, from |-> n, to |-> m.from,
                    term |-> s.currentTerm, success |-> FALSE, matchIndex |-> -1]}]
    ELSE
        LET s1 == IF m.term > s.currentTerm THEN becomeFollower(s, m.term) ELSE s
            s2 == IF s1.currentState = CANDIDATE THEN becomeFollower(s1, m.term) ELSE s1
            s3 == resetElectionTimer(s2)
            success == logConsistent(s3, m.prevLogIndex, m.prevLogTerm)
            s4 == IF success
                  THEN updateFollowerCommit(
                           [s3 EXCEPT !.log = appendLoop(s3.log, m.entries, m.prevLogIndex + 1)],
                           m.leaderCommit)
                  ELSE s3
        IN  [node |-> s4,
             out |-> {[type |-> APPEND_ENTRIES_RESPONSE, from |-> n, to |-> m.from,
                       term |-> s4.currentTerm, success |-> success,
                       matchIndex |-> IF success THEN m.prevLogIndex + Len(m.entries)
                                      ELSE -1]}]

handleAppendEntriesResponseThrows(s, n, m) ==
    /\ s.currentState = LEADER
    /\ m.term = s.currentTerm
    /\ IF m.success
       THEN updateCommitIndexThrows([s EXCEPT !.matchIndex[m.from] = m.matchIndex])
       ELSE LET next == IF s.nextIndex[m.from] - 1 > 0 THEN s.nextIndex[m.from] - 1 ELSE 0
            IN  sendAppendEntriesThrows([s EXCEPT !.nextIndex[m.from] = next], m.from)

handleAppendEntriesResponse(s, n, m) ==
    IF s.currentState # LEADER THEN [node |-> s, out |-> {}]
    ELSE IF m.term > s.currentTerm
    THEN [node |-> becomeFollower(s, m.term), out |-> {}]
    ELSE IF m.term = s.currentTerm
    THEN IF m.success
         THEN [node |-> updateCommitIndex([s EXCEPT !.nextIndex[m.from] = m.matchIndex + 1,
                                                    !.matchIndex[m.from] = m.matchIndex]),
               out |-> {}]
         ELSE LET next == IF s.nextIndex[m.from] - 1 > 0 THEN s.nextIndex[m.from] - 1 ELSE 0
                  s1 == [s EXCEPT !.nextIndex[m.from] = next]
              IN  [node |-> s1, out |-> {sendAppendEntries(s1, n, m.from)}]
    ELSE [node |-> s, out |-> {}]

\* ------------------------------------------------------------- cluster
\* RaftCluster.send: the message is handed to the network; a granted vote
\* response is tallied for its addressee as it is sent.
tally(v, out) ==
    [c \in DOMAIN v |->
        v[c] \cup {m.from : m \in {x \in out : x.type = REQUEST_VOTE_RESPONSE
                                               /\ x.voteGranted /\ x.to = c}}]

\* NetworkSimulator.send: delivery after a delay.  A message on a link outside
\* env.links is delayed beyond the run and is not tracked.
send(net, out) == net (+) SetToBag({m \in out : <<m.from, m.to>> \in env.links})

\* getLeader that takes the first node that is not a Follower
getLeaderOrCandidate ==
    IF \E n \in NodeIds : nodes[n].currentState # FOLLOWER
    THEN CHOOSE n \in NodeIds :
             /\ nodes[n].currentState # FOLLOWER
             /\ \A k \in NodeIds : nodes[k].currentState # FOLLOWER => n <= k
    ELSE Null

\* RaftCluster.getLeader: the first node, in creation order, that is LEADER
getLeader == IF \E n \in NodeIds : nodes[n].currentState = LEADER
             THEN CHOOSE n \in NodeIds :
                      /\ nodes[n].currentState = LEADER
                      /\ \A k \in NodeIds : nodes[k].currentState = LEADER => n <= k
             ELSE Null

\* ------------------------------------------------------------- history
\* A pending call whose node stops being Leader before its entry is committed
\* there has lost its leader.
trackCalls(c, n, s, t) ==
    [i \in DOMAIN c |->
        IF /\ c[i].node = n
           /\ c[i].status = "pending"
           /\ s.currentState = LEADER
           /\ t.currentState # LEADER
           /\ s.commitIndex < c[i].index
        THEN [c[i] EXCEPT !.lost = TRUE]
        ELSE c[i]]

trackCommitted(s, t) ==
    {[index |-> i, entry |-> t.log[i + 1], term |-> t.currentTerm] :
        i \in {j \in (s.commitIndex + 1) .. t.commitIndex : j < Len(t.log)}}

\* ---------------------------------------------------------------- Init
\* new RaftNode(...): a Follower in term 0 with an empty log and its election
\* timer running
RaftNode ==
    [currentState |-> FOLLOWER, currentTerm |-> 0, votedFor |-> Null, log |-> << >>,
     commitIndex |-> -1, lastApplied |-> -1,
     nextIndex |-> << >>, matchIndex |-> << >>,
     electionTimer |-> TRUE, heartbeatTimer |-> FALSE, leakedHeartbeats |-> 0,
     applied |-> << >>]

\* new RaftCluster(nodeCount): the environment e says which election timers
\* may expire and how often timers tick and clients call in this run.
RaftCluster(nodeCount, e) ==
    /\ nodes = [n \in 0 .. nodeCount - 1 |-> RaftNode]
    /\ votes = [n \in 0 .. nodeCount - 1 |-> {}]
    /\ network = EmptyBag
    /\ calls = << >>
    /\ crashed = FALSE
    /\ env = e
    /\ granted = {}
    /\ elected = {}
    /\ committed = {}
    /\ stopped = {}

AllLinks(nodeCount) == {l \in (0 .. nodeCount - 1) \X (0 .. nodeCount - 1) : l[1] # l[2]}

Init ==
    RaftCluster(3, [elections |-> <<1, 1, 0>>, heartbeats |-> <<1, 1, 0>>,
                    commands |-> <<1, 1, 0>>, shutdowns |-> MaxShutdowns, rejects |-> 0,
                    links |-> AllLinks(3), steps |-> MaxSteps])

\* ------------------------------------------------------------- actions
\* What is left of budget b after one use
spend(b) == IF b = NoLimit THEN b ELSE b - 1

\* The environment may act: the process is alive and the run is not over.
CanStep == ~crashed /\ env.steps # 0

step(e) == [e EXCEPT !.steps = spend(@)]

\* The handler on node n returned r, having received message m (or none).
Finish(n, net, r, newVotes, newGranted, newElected) ==
    /\ nodes' = [nodes EXCEPT ![n] = r.node]
    /\ network' = send(net, r.out)
    /\ votes' = tally(newVotes, r.out)
    /\ calls' = trackCalls(calls, n, nodes[n], r.node)
    /\ granted' = granted \cup newGranted
    /\ elected' = elected \cup newElected
    /\ committed' = committed \cup trackCommitted(nodes[n], r.node)
    /\ UNCHANGED <<crashed, stopped>>

\* An exception escaped the callback: Node.js ends the process.
Throw ==
    /\ crashed' = TRUE
    /\ UNCHANGED <<nodes, votes, network, calls, env, granted, elected, committed, stopped>>

\* The election timer of node n expires: startElection
ElectionTimeout(n) ==
    /\ CanStep
    /\ nodes[n].electionTimer
    /\ env.elections[n + 1] > 0
    /\ LET r == startElection(nodes[n], n)
       IN  Finish(n, network, r, [votes EXCEPT ![n] = {n}],
                  {<<n, n, r.node.currentTerm>>}, {})
    /\ env' = step([env EXCEPT !.elections[n + 1] = @ - 1])

\* The heartbeat interval of node n ticks: sendHeartbeats
HeartbeatTimeout(n) ==
    /\ CanStep
    /\ nodes[n].heartbeatTimer \/ nodes[n].leakedHeartbeats > 0
    /\ env.heartbeats[n + 1] # 0
    /\ IF sendHeartbeatsThrows(nodes[n], n) THEN Throw
       ELSE /\ Finish(n, network, [node |-> nodes[n], out |-> sendHeartbeats(nodes[n], n)],
                      votes, {}, {})
            /\ env' = step([env EXCEPT !.heartbeats[n + 1] = spend(@)])

DeliverRequestVote(m) ==
    /\ CanStep
    /\ m.type = REQUEST_VOTE
    /\ LET n == m.to
           r == handleRequestVote(nodes[n], n, m)
       IN  Finish(n, network (-) SetToBag({m}), r, votes,
                  IF r.voteGranted THEN {<<n, m.candidateId, r.node.currentTerm>>} ELSE {},
                  {})
    /\ env' = step(env)

DeliverRequestVoteResponse(m) ==
    /\ CanStep
    /\ m.type = REQUEST_VOTE_RESPONSE
    /\ LET n == m.to
           r == handleRequestVoteResponse(nodes[n], n, m, Cardinality(votes[n]))
       IN  Finish(n, network (-) SetToBag({m}), r, votes, {},
                  IF r.won THEN {[node |-> n, term |-> r.node.currentTerm,
                                  tally |-> votes[n]]}
                  ELSE {})
    /\ env' = step(env)

DeliverAppendEntries(m) ==
    /\ CanStep
    /\ m.type = APPEND_ENTRIES
    /\ LET n == m.to
           r == handleAppendEntries(nodes[n], n, m)
       IN  Finish(n, network (-) SetToBag({m}), r, votes, {}, {})
    /\ env' = step(env)

DeliverAppendEntriesResponse(m) ==
    /\ CanStep
    /\ m.type = APPEND_ENTRIES_RESPONSE
    /\ LET n == m.to
       IN  IF handleAppendEntriesResponseThrows(nodes[n], n, m) THEN Throw
           ELSE /\ Finish(n, network (-) SetToBag({m}),
                          handleAppendEntriesResponse(nodes[n], n, m), votes, {}, {})
                /\ env' = step(env)

\* A client call that throws before anything is appended: the k-th call
\* made is rejected with the error's message.
reject(n, error) ==
    /\ env.rejects > 0
    /\ calls' = Append(calls,
           [node |-> n, index |-> -1, command |-> Len(calls) + 1,
            status |-> "rejected", seen |-> 0, lost |-> FALSE, error |-> error])
    /\ env' = step([env EXCEPT !.rejects = @ - 1])
    /\ UNCHANGED <<nodes, votes, network, crashed, granted, elected, committed, stopped>>

\* submitCommand that turns away Followers only
nodeSubmitCommandUnlessFollower(n) ==
    IF nodes[n].currentState = FOLLOWER
    THEN reject(n, "Not the leader")
    ELSE LET s == nodes[n]
             entry == LogEntry(s.currentTerm, Len(calls) + 1, Len(s.log))
         IN  /\ env.commands[n + 1] > 0
             /\ nodes' = [nodes EXCEPT ![n].log = appendEntry(s.log, entry)]
             /\ calls' = Append(calls,
                    [node |-> n, index |-> entry.index, command |-> entry.command,
                     status |-> IF s.lastApplied >= entry.index THEN "resolved"
                                ELSE "pending",
                     seen |-> IF s.lastApplied >= entry.index
                              THEN s.applied[entry.index + 1].command ELSE 0,
                     lost |-> FALSE, error |-> ""])
             /\ env' = step([env EXCEPT !.commands[n + 1] = @ - 1])
             /\ UNCHANGED <<votes, network, crashed, granted, elected, committed, stopped>>

\* RaftNode.submitCommand on node n: 'Not the leader' unless n is LEADER;
\* otherwise the entry is appended and the promise polls lastApplied.  The
\* command of the k-th call made is k.
nodeSubmitCommand(n) ==
    IF nodes[n].currentState # LEADER
    THEN reject(n, "Not the leader")
    ELSE LET s == nodes[n]
             entry == LogEntry(s.currentTerm, Len(calls) + 1, Len(s.log))
         IN  /\ env.commands[n + 1] > 0
             /\ nodes' = [nodes EXCEPT ![n].log = appendEntry(s.log, entry)]
             /\ calls' = Append(calls,
                    [node |-> n, index |-> entry.index, command |-> entry.command,
                     status |-> IF s.lastApplied >= entry.index THEN "resolved"
                                ELSE "pending",
                     seen |-> IF s.lastApplied >= entry.index
                              THEN s.applied[entry.index + 1].command ELSE 0,
                     lost |-> FALSE, error |-> ""])
             /\ env' = step([env EXCEPT !.commands[n + 1] = @ - 1])
             /\ UNCHANGED <<votes, network, crashed, granted, elected, committed, stopped>>

SubmitCommand(n) ==
    /\ CanStep
    /\ nodeSubmitCommand(n)

\* RaftCluster.submitCommand: 'No leader elected' when getLeader() is null
ClusterSubmitCommand ==
    /\ CanStep
    /\ IF getLeader = Null THEN reject(Null, "No leader elected")
       ELSE nodeSubmitCommand(getLeader)

\* The promise of call i polls (setTimeout(checkCommitted, 10)): it resolves
\* once lastApplied has reached the index, and polls again otherwise.
CheckCommitted(i) ==
    /\ CanStep
    /\ calls[i].status = "pending"
    /\ IF nodes[calls[i].node].lastApplied >= calls[i].index
       THEN /\ calls' = [calls EXCEPT ![i].status = "resolved",
                            ![i].seen = nodes[calls[i].node].applied[calls[i].index + 1].command]
            /\ env' = step(env)
            /\ UNCHANGED <<nodes, votes, network, crashed, granted, elected, committed,
                           stopped>>
       ELSE UNCHANGED vars

shutdown(s) == stopHeartbeatTimer(stopElectionTimer(s))

\* RaftNode.shutdown on node n
Shutdown(n) ==
    /\ CanStep
    /\ env.shutdowns > 0
    /\ nodes' = [nodes EXCEPT ![n] = shutdown(nodes[n])]
    /\ env' = step([env EXCEPT !.shutdowns = @ - 1])
    /\ stopped' = stopped \cup {n}
    /\ UNCHANGED <<votes, network, calls, crashed, granted, elected, committed>>

\* RaftCluster.shutdown: every node's shutdown; the network's does nothing
ClusterShutdown ==
    /\ CanStep
    /\ env.shutdowns > 0
    /\ nodes' = [n \in NodeIds |-> shutdown(nodes[n])]
    /\ env' = step([env EXCEPT !.shutdowns = @ - 1])
    /\ stopped' = NodeIds
    /\ UNCHANGED <<votes, network, calls, crashed, granted, elected, committed>>

NextElection ==
    \/ \E n \in NodeIds : ElectionTimeout(n)
    \/ \E m \in BagToSet(network) : DeliverRequestVote(m)
    \/ \E m \in BagToSet(network) : DeliverRequestVoteResponse(m)
    \/ \E m \in BagToSet(network) : DeliverAppendEntries(m)
    \/ \E m \in BagToSet(network) : DeliverAppendEntriesResponse(m)

NextClient ==
    \/ NextElection
    \/ \E n \in NodeIds : HeartbeatTimeout(n)
    \/ \E n \in NodeIds : SubmitCommand(n)
    \/ \E i \in DOMAIN calls : CheckCommitted(i)

Next ==
    \/ NextClient
    \/ ClusterSubmitCommand
    \/ \E n \in NodeIds : Shutdown(n)
    \/ ClusterShutdown

Spec == Init /\ [][Next]_vars

\* ------------------------------------------------------------ scenarios
\* A 4-node cluster in which the election timers of nodes 0 and 1 expire
\* twice each; only the links the two candidates and their voters use deliver
\* within the run.
InitFourElection ==
    RaftCluster(4, [elections |-> <<2, 2, 0, 0>>, heartbeats |-> <<0, 0, 0, 0>>,
                    commands |-> <<0, 0, 0, 0>>, shutdowns |-> 0, rejects |-> 0,
                    links |-> {<<0, 2>>, <<0, 3>>, <<1, 2>>, <<1, 3>>, <<2, 0>>, <<3, 1>>},
                    steps |-> FourElectionSteps])

SpecFourElection == InitFourElection /\ [][NextElection]_vars

\* The state SpecFourElection reaches when all its messages are delivered:
\* nodes 0 and 1 are both Leader of term 2 with empty logs, nodes 2 and 3
\* follow in term 2, and nothing tracked is in flight.
TwinLeaders ==
    /\ nodes = [n \in 0 .. 3 |->
          IF n \in {0, 1}
          THEN [RaftNode EXCEPT !.currentState = LEADER, !.currentTerm = 2,
                               !.votedFor = n, !.electionTimer = FALSE,
                               !.heartbeatTimer = TRUE,
                               !.nextIndex = [p \in (0 .. 3) \ {n} |-> 0],
                               !.matchIndex = [p \in (0 .. 3) \ {n} |-> -1]]
          ELSE [RaftNode EXCEPT !.currentTerm = 2, !.votedFor = n - 2]]
    /\ votes = [n \in 0 .. 3 |-> IF n \in {0, 1} THEN {n, 2, 3} ELSE {}]
    /\ network = EmptyBag
    /\ calls = << >>
    /\ crashed = FALSE
    /\ granted = {<<0, 0, 1>>, <<0, 0, 2>>, <<1, 1, 1>>, <<1, 1, 2>>,
                  <<2, 0, 2>>, <<2, 1, 1>>, <<3, 0, 1>>, <<3, 1, 2>>}
    /\ elected = {[node |-> n, term |-> 2, tally |-> {n, 2, 3}] : n \in {0, 1}}
    /\ committed = {}
    /\ stopped = {}

\* The run continues from TwinLeaders: each leader takes one command and
\* sends one round of heartbeats, and the election timer of node 2 may expire.
\* The two leaders do not reach each other, and node 3 does not reach node 2.
InitTwin ==
    /\ TwinLeaders
    /\ env = [elections |-> <<0, 0, 1, 0>>, heartbeats |-> <<1, 1, 0, 0>>,
              commands |-> <<1, 1, 0, 0>>, shutdowns |-> 0, rejects |-> 0,
              links |-> AllLinks(4) \ {<<0, 1>>, <<1, 0>>, <<3, 2>>},
              steps |-> TwinSteps]

SpecTwin == InitTwin /\ [][NextClient]_vars

\* A 3-node cluster in which node 0 and then node 1 is elected and each takes
\* one command; nodes 0 and 2 do not reach each other.
InitDeposed ==
    RaftCluster(3, [elections |-> <<1, 1, 0>>, heartbeats |-> <<0, 2, 0>>,
                    commands |-> <<1, 1, 0>>, shutdowns |-> 0, rejects |-> 0,
                    links |-> AllLinks(3) \ {<<0, 2>>, <<2, 0>>},
                    steps |-> DeposedSteps])

SpecDeposed == InitDeposed /\ [][NextClient]_vars

\* A 3-node cluster in which node 0 is elected and takes a command, and node
\* 1, holding that entry, is elected next and takes another; nodes 0 and 2 do
\* not reach each other.
InitOldTerm ==
    RaftCluster(3, [elections |-> <<1, 1, 0>>, heartbeats |-> <<1, 1, 0>>,
                    commands |-> <<1, 1, 0>>, shutdowns |-> 0, rejects |-> 0,
                    links |-> AllLinks(3) \ {<<0, 2>>, <<2, 0>>},
                    steps |-> OldTermSteps])

SpecOldTerm == InitOldTerm /\ [][NextClient]_vars

\* A 3-node cluster in which node 0 may be elected and clients call
\* submitCommand on the cluster and on every node, before and after.
InitClient ==
    RaftCluster(3, [elections |-> <<1, 0, 0>>, heartbeats |-> <<0, 0, 0>>,
                    commands |-> <<2, 0, 0>>, shutdowns |-> 0, rejects |-> 2,
                    links |-> AllLinks(3), steps |-> ClientSteps])

NextCalls ==
    \/ NextElection
    \/ \E n \in NodeIds : SubmitCommand(n)
    \/ ClusterSubmitCommand

SpecClient == InitClient /\ [][NextCalls]_vars

\* The logs a node may hold in term maxTerm: up to MaxVoteLog entries whose
\* terms do not decrease.
VoteLogs(maxTerm) ==
    UNION {{[i \in 1 .. len |-> LogEntry(f[i], i, i - 1)] :
                f \in {g \in [1 .. len -> 1 .. maxTerm] :
                          \A i \in 1 .. len : \A j \in i .. len : g[i] <= g[j]}} :
           len \in 0 .. MaxVoteLog}

\* One RequestVote on its way: node 0 started an election in some term with
\* some log, and node 2, in some term, with some log, having voted for nobody,
\* for node 0, for node 1 or (as a Candidate) for itself, is about to handle it.
InitVote ==
    \E ct \in 1 .. MaxVoteTerm, rt \in 0 .. MaxVoteTerm :
    \E cl \in VoteLogs(ct - 1), rl \in VoteLogs(rt) :
    \E rv \in IF rt = 0 THEN {Null} ELSE {Null, 0, 1, 2} :
        LET candidate == resetElectionTimer(
                             [RaftNode EXCEPT !.currentState = CANDIDATE, !.currentTerm = ct,
                                              !.votedFor = 0, !.log = cl])
            receiver == [RaftNode EXCEPT !.currentState = IF rv = 2 THEN CANDIDATE ELSE FOLLOWER,
                                         !.currentTerm = rt, !.votedFor = rv, !.log = rl]
        IN  /\ nodes = [n \in 0 .. 2 |-> IF n = 0 THEN candidate
                                         ELSE IF n = 2 THEN receiver ELSE RaftNode]
            /\ votes = [n \in 0 .. 2 |-> IF n = 0 THEN {0} ELSE {}]
            /\ network = SetToBag({[type |-> REQUEST_VOTE, from |-> 0, to |-> 2,
                                    term |-> ct, candidateId |-> 0,
                                    lastLogIndex |-> getLastLogIndex(candidate),
                                    lastLogTerm |-> getLastLogTerm(candidate)]})
            /\ calls = << >>
            /\ crashed = FALSE
            /\ env = [elections |-> <<0, 0, 0>>, heartbeats |-> <<0, 0, 0>>,
                      commands |-> <<0, 0, 0>>, shutdowns |-> 0, rejects |-> 0,
                      links |-> AllLinks(3), steps |-> 1]
            /\ granted = {<<0, 0, ct>>}
            /\ elected = {}
            /\ committed = {}
            /\ stopped = {}

NextVote == \E m \in BagToSet(network) : DeliverRequestVote(m)

SpecVote == InitVote /\ [][NextVote]_vars

\* A 5-node cluster that a partition cuts into nodes 0 and 1 on one side and
\* nodes 2, 3 and 4 on the other.  NetworkSimulator.send has no switch that
\* loses a message: the partition is the environment never running the
\* delivery callback of a message that crosses the cut.
MinoritySide == {0, 1}

SideLinks == {l \in AllLinks(5) : (l[1] \in MinoritySide) <=> (l[2] \in MinoritySide)}

Partitioned == env.links = SideLinks

\* The partition begins: the messages in flight across the cut are lost, and
\* from now on only messages within a side are delivered.
Partition ==
    /\ CanStep
    /\ ~Partitioned
    /\ network' = [m \in {x \in BagToSet(network) : <<x.from, x.to>> \in SideLinks}
                      |-> network[m]]
    /\ env' = step([env EXCEPT !.links = SideLinks])
    /\ UNCHANGED <<nodes, votes, calls, crashed, granted, elected, committed, stopped>>

\* The election timer of node 0, on the minority side, and of node 2, on the
\* majority side, may expire once, before or after the partition begins.
InitPartition ==
    RaftCluster(5, [elections |-> <<1, 0, 1, 0, 0>>, heartbeats |-> <<0, 0, 0, 0, 0>>,
                    commands |-> <<0, 0, 0, 0, 0>>, shutdowns |-> 0, rejects |-> 0,
                    links |-> AllLinks(5), steps |-> PartitionSteps])

NextPartition ==
    \/ NextElection
    \/ Partition

SpecPartition == InitPartition /\ [][NextPartition]_vars

\* One AppendEntries on its way: node 0, Leader of some term with some log,
\* commitIndex and nextIndex for node 2, has sent it, and node 2, a Follower
\* or Candidate of some term with some log and commitIndex, is about to
\* handle it.
InitAppend ==
    \E lt \in 1 .. MaxAppendTerm, rt \in 0 .. MaxAppendTerm :
    \E ll \in VoteLogs(lt), rl \in VoteLogs(rt) :
    \E lc \in -1 .. Len(ll) - 1, ni \in 0 .. Len(ll), rc \in -1 .. Len(rl) - 1 :
    \E rv \in IF rt = 0 THEN {Null} ELSE {Null, 0, 2} :
        LET leader == [RaftNode EXCEPT !.currentState = LEADER, !.currentTerm = lt,
                                       !.votedFor = 0, !.log = ll,
                                       !.commitIndex = lc, !.lastApplied = lc,
                                       !.applied = SubSeq(ll, 1, lc + 1),
                                       !.electionTimer = FALSE, !.heartbeatTimer = TRUE,
                                       !.nextIndex = [f \in {1, 2} |-> IF f = 2 THEN ni ELSE Len(ll)],
                                       !.matchIndex = [f \in {1, 2} |-> -1]]
            receiver == [RaftNode EXCEPT !.currentState = IF rv = 2 THEN CANDIDATE ELSE FOLLOWER,
                                         !.currentTerm = rt, !.votedFor = rv, !.log = rl,
                                         !.commitIndex = rc, !.lastApplied = rc,
                                         !.applied = SubSeq(rl, 1, rc + 1)]
        IN  /\ nodes = [n \in 0 .. 2 |-> IF n = 0 THEN leader
                                         ELSE IF n = 2 THEN receiver ELSE RaftNode]
            /\ votes = [n \in 0 .. 2 |-> {}]
            /\ network = SetToBag({sendAppendEntries(leader, 0, 2)})
            /\ calls = << >>
            /\ crashed = FALSE
            /\ env = [elections |-> <<0, 0, 0>>, heartbeats |-> <<0, 0, 0>>,
                      commands |-> <<0, 0, 0>>, shutdowns |-> 0, rejects |-> 0,
                      links |-> AllLinks(3), steps |-> 1]
            /\ granted = {}
            /\ elected = {}
            /\ committed = {}
            /\ stopped = {}

NextAppend == \E m \in BagToSet(network) : DeliverAppendEntries(m)

SpecAppend == InitAppend /\ [][NextAppend]_vars

\* A 4-node cluster in which node 0 is elected in term 1 with the votes of
\* nodes 1 and 2 and takes two commands, while its RequestVote to node 3 is
\* still on its way.
InitFirstLeader ==
    RaftCluster(4, [elections |-> <<1, 0, 0, 0>>, heartbeats |-> <<0, 0, 0, 0>>,
                    commands |-> <<2, 0, 0, 0>>, shutdowns |-> 0, rejects |-> 0,
                    links |-> {<<0, 1>>, <<0, 2>>, <<0, 3>>, <<1, 0>>, <<2, 0>>},
                    steps |-> FirstLeaderSteps])

SpecFirstLeader == InitFirstLeader /\ [][NextCalls]_vars

\* The state SpecFirstLeader reaches when everything but the RequestVote to
\* node 3 has been handled: node 0 is Leader of term 1 with two entries that
\* no other node holds, and every node is in term 1.
LeaderWithTwoEntries ==
    /\ nodes = [n \in 0 .. 3 |->
          IF n = 0
          THEN [RaftNode EXCEPT !.currentState = LEADER, !.currentTerm = 1,
                               !.votedFor = 0, !.electionTimer = FALSE,
                               !.heartbeatTimer = TRUE,
                               !.log = <<LogEntry(1, 1, 0), LogEntry(1, 2, 1)>>,
                               !.nextIndex = [p \in 1 .. 3 |-> 0],
                               !.matchIndex = [p \in 1 .. 3 |-> -1]]
          ELSE [RaftNode EXCEPT !.currentTerm = 1,
                               !.votedFor = IF n = 3 THEN Null ELSE 0]]
    /\ votes = [n \in 0 .. 3 |-> IF n = 0 THEN {0, 1, 2} ELSE {}]
    /\ network = SetToBag({[type |-> REQUEST_VOTE, from |-> 0, to |-> 3, term |-> 1,
                            candidateId |-> 0, lastLogIndex |-> -1, lastLogTerm |-> 0]})
    /\ calls = <<[node |-> 0, index |-> 0, command |-> 1, status |-> "pending",
                  seen |-> 0, lost |-> FALSE, error |-> ""],
                 [node |-> 0, index |-> 1, command |-> 2, status |-> "pending",
                  seen |-> 0, lost |-> FALSE, error |-> ""]>>
    /\ crashed = FALSE
    /\ granted = {<<0, 0, 1>>, <<1, 0, 1>>, <<2, 0, 1>>}
    /\ elected = {[node |-> 0, term |-> 1, tally |-> {0, 1, 2}]}
    /\ committed = {}
    /\ stopped = {}

\* The run continues from LeaderWithTwoEntries: the election timer of node 1
\* may expire twice and that of node 0, once it is deposed, once; node 1 may
\* take a command and send a round of heartbeats.  Node 0 reaches node 2 only,
\* and node 3 reaches node 1 only.
InitSecondTwin ==
    /\ LeaderWithTwoEntries
    /\ env = [elections |-> <<1, 2, 0, 0>>, heartbeats |-> <<0, 1, 0, 0>>,
              commands |-> <<0, 1, 0, 0>>, shutdowns |-> 0, rejects |-> 0,
              links |-> {<<0, 2>>, <<1, 0>>, <<1, 2>>, <<1, 3>>, <<2, 0>>, <<3, 1>>},
              steps |-> SecondTwinSteps]

SpecSecondTwin == InitSecondTwin /\ [][NextClient]_vars

\* The heartbeat interval of node n ticks once the AppendEntries of the round
\* before and their responses have been handled: heartbeatInterval (50 ms) is
\* longer than a round trip, 2 * (delay + jitter) <= 40 ms with the default
\* networkDelay of 10 ms.
HeartbeatInterval(n) ==
    /\ \A m \in BagToSet(network) : m.type \notin {APPEND_ENTRIES, APPEND_ENTRIES_RESPONSE}
    /\ HeartbeatTimeout(n)

\* Some message in flight is delivered
Deliver ==
    \E m \in BagToSet(network) :
        \/ DeliverRequestVote(m)
        \/ DeliverRequestVoteResponse(m)
        \/ DeliverAppendEntries(m)
        \/ DeliverAppendEntriesResponse(m)

\* A fault-free run of a 3-node cluster: every message is delivered, only the
\* election timer of node 0 expires, its heartbeats arrive in time to keep the
\* other election timers from expiring, and clients submit up to
\* FaultFreeCalls commands.  The run does not end.
InitFaultFree ==
    RaftCluster(3, [elections |-> <<1, 0, 0>>, heartbeats |-> <<NoLimit, 0, 0>>,
                    commands |-> <<FaultFreeCalls, 0, 0>>, shutdowns |-> 0, rejects |-> 0,
                    links |-> AllLinks(3), steps |-> NoLimit])

NextFaultFree ==
    \/ NextElection
    \/ \E n \in NodeIds : HeartbeatInterval(n)
    \/ \E n \in NodeIds : SubmitCommand(n)
    \/ \E i \in DOMAIN calls : CheckCommitted(i)

\* setTimeout and setInterval callbacks that are due do run: messages are
\* delivered, the heartbeat interval ticks, and a pending promise polls.
FairFaultFree ==
    /\ InitFaultFree
    /\ [][NextFaultFree]_vars
    /\ WF_vars(Deliver)
    /\ WF_vars(\E n \in NodeIds : HeartbeatInterval(n))
    /\ WF_vars(\E i \in DOMAIN calls : CheckCommitted(i))

\* Some node is Leader with its heartbeat interval running
LeaderAlive == \E l \in NodeIds : nodes[l].currentState = LEADER /\ nodes[l].heartbeatTimer

\* The election timer of node n expires.  An election timeout (150-300 ms)
\* is longer than a heartbeat interval plus a delivery (at most 70 ms), so no
\* timer expires while a Leader sends heartbeats; and it is longer than any
\* exchange of messages (at most 20 ms each way), so a timer expires only
\* when nothing is in flight, or together with other timers, before any of
\* their RequestVotes has arrived.
ElectionTimer(n) ==
    /\ ~LeaderAlive
    /\ \A m \in BagToSet(network) :
           /\ m.type = REQUEST_VOTE
           /\ \A f \in Others(m.from) :
                  \E r \in BagToSet(network) :
                      r.type = REQUEST_VOTE /\ r.from = m.from /\ r.to = f
    /\ ElectionTimeout(n)

\* demonstrateRaft: leader = cluster.getLeader(); leader.shutdown()
KillLeader ==
    /\ getLeader # Null
    /\ Shutdown(getLeader)

\* The state FairFaultFree reaches when node 0 has won term 1 with both
\* votes and its first heartbeats have been answered: nothing is in flight.
FirstLeader ==
    /\ nodes = [n \in 0 .. 2 |->
          IF n = 0
          THEN [RaftNode EXCEPT !.currentState = LEADER, !.currentTerm = 1,
                               !.votedFor = 0, !.electionTimer = FALSE,
                               !.heartbeatTimer = TRUE,
                               !.nextIndex = [p \in 1 .. 2 |-> 0],
                               !.matchIndex = [p \in 1 .. 2 |-> -1]]
          ELSE [RaftNode EXCEPT !.currentTerm = 1, !.votedFor = 0]]
    /\ votes = [n \in 0 .. 2 |-> IF n = 0 THEN {0, 1, 2} ELSE {}]
    /\ network = EmptyBag
    /\ calls = << >>
    /\ crashed = FALSE
    /\ granted = {<<0, 0, 1>>, <<1, 0, 1>>, <<2, 0, 1>>}
    /\ elected = {[node |-> 0, term |-> 1, tally |-> {0, 1, 2}]}
    /\ committed = {}
    /\ stopped = {}

\* The run continues from FirstLeader and the Leader is shut down: timers
\* expire as their lengths allow, every message is delivered, a client may
\* submit one command to node 0, and the run does not end.  Each election
\* timer may expire once more.
InitFailover ==
    /\ FirstLeader
    /\ env = [elections |-> <<1, 1, 1>>, heartbeats |-> <<NoLimit, NoLimit, NoLimit>>,
              commands |-> <<1, 0, 0>>, shutdowns |-> 1, rejects |-> 0,
              links |-> AllLinks(3), steps |-> NoLimit]

NextFailover ==
    \/ \E n \in NodeIds : ElectionTimer(n)
    \/ Deliver
    \/ \E n \in NodeIds : HeartbeatInterval(n)
    \/ \E n \in NodeIds : SubmitCommand(n)
    \/ KillLeader

FairFailover ==
    /\ InitFailover
    /\ [][NextFailover]_vars
    /\ WF_vars(Deliver)
    /\ WF_vars(\E n \in NodeIds : HeartbeatInterval(n))
    /\ WF_vars(\E n \in NodeIds : ElectionTimer(n))

\* The run continues from FirstLeader while nodes 0 and 2 do not reach each
\* other: node 0 takes a command, the election timer of node 1 expires, and
\* the messages that follow are delivered.
InitDeposing ==
    /\ FirstLeader
    /\ env = [elections |-> <<0, 1, 0>>, heartbeats |-> <<0, 0, 0>>,
              commands |-> <<1, 0, 0>>, shutdowns |-> 0, rejects |-> 0,
              links |-> AllLinks(3) \ {<<0, 2>>, <<2, 0>>}, steps |-> DeposingSteps]

SpecDeposing == InitDeposing /\ [][NextClient]_vars

\* The state SpecDeposing reaches when all its messages are delivered: node 1
\* is Leader of term 2 with an empty log, elected by node 2; node 0 is a
\* Follower in term 2 and holds the entry of term 1 it took as Leader, which
\* no other node has; nothing is in flight.
DeposedLeader ==
    /\ nodes = [n \in 0 .. 2 |->
          CASE n = 0 -> [RaftNode EXCEPT !.currentTerm = 2,
                                         !.log = <<LogEntry(1, 1, 0)>>,
                                         !.nextIndex = [p \in 1 .. 2 |-> 0],
                                         !.matchIndex = [p \in 1 .. 2 |-> -1]]
            [] n = 1 -> [RaftNode EXCEPT !.currentState = LEADER, !.currentTerm = 2,
                                         !.votedFor = 1, !.electionTimer = FALSE,
                                         !.heartbeatTimer = TRUE,
                                         !.nextIndex = [p \in {0, 2} |-> 0],
                                         !.matchIndex = [p \in {0, 2} |-> -1]]
            [] n = 2 -> [RaftNode EXCEPT !.currentTerm = 2, !.votedFor = 1]]
    /\ votes = [n \in 0 .. 2 |-> CASE n = 0 -> {0, 1, 2} [] n = 1 -> {1, 2} [] n = 2 -> {}]
    /\ network = EmptyBag
    /\ calls = <<[node |-> 0, index |-> 0, command |-> 1, status |-> "pending",
                  seen |-> 0, lost |-> TRUE, error |-> ""]>>
    /\ crashed = FALSE
    /\ granted = {<<0, 0, 1>>, <<1, 0, 1>>, <<2, 0, 1>>, <<1, 1, 2>>, <<2, 1, 2>>}
    /\ elected = {[node |-> 0, term |-> 1, tally |-> {0, 1, 2}],
                  [node |-> 1, term |-> 2, tally |-> {1, 2}]}
    /\ committed = {}
    /\ stopped = {}

\* An AppendEntries or its response in flight is delivered
Replicate ==
    \E m \in BagToSet(network) :
        \/ DeliverAppendEntries(m)
        \/ DeliverAppendEntriesResponse(m)

\* The run continues from DeposedLeader with every link delivering: node 1
\* stays in office (its heartbeats keep every election timer from expiring),
\* clients may submit up to two commands to it, and the run does not end.
InitConverge ==
    /\ DeposedLeader
    /\ env = [elections |-> <<0, 0, 0>>, heartbeats |-> <<0, NoLimit, 0>>,
              commands |-> <<0, 2, 0>>, shutdowns |-> 0, rejects |-> 0,
              links |-> AllLinks(3), steps |-> NoLimit]

NextConverge ==
    \/ Replicate
    \/ \E n \in NodeIds : HeartbeatInterval(n)
    \/ \E n \in NodeIds : SubmitCommand(n)
    \/ \E i \in DOMAIN calls : CheckCommitted(i)

FairConverge ==
    /\ InitConverge
    /\ [][NextConverge]_vars
    /\ WF_vars(Replicate)
    /\ WF_vars(\E n \in NodeIds : HeartbeatInterval(n))
    /\ WF_vars(\E i \in DOMAIN calls : CheckCommitted(i))

\* The state SpecFourElection reaches after a split vote: the election timers
\* of nodes 0 and 1 have expired together, node 2 has voted for node 0 and
\* node 3 for node 1, every response has arrived, and both are Candidates of
\* term 1 with two votes of the three needed.
SplitVote ==
    /\ nodes = [n \in 0 .. 3 |->
          IF n \in {0, 1}
          THEN [RaftNode EXCEPT !.currentState = CANDIDATE, !.currentTerm = 1,
                               !.votedFor = n]
          ELSE [RaftNode EXCEPT !.currentTerm = 1, !.votedFor = n - 2]]
    /\ votes = [n \in 0 .. 3 |-> IF n \in {0, 1} THEN {n, n + 2} ELSE {}]
    /\ network = EmptyBag
    /\ calls = << >>
    /\ crashed = FALSE
    /\ granted = {<<0, 0, 1>>, <<1, 1, 1>>, <<2, 0, 1>>, <<3, 1, 1>>}
    /\ elected = {}
    /\ committed = {}
    /\ stopped = {}

\* The run continues from SplitVote: the election timers of the two
\* Candidates expire once more, as their lengths allow, every message is
\* delivered, a Leader's heartbeat interval ticks, and the run does not end.
InitSplitVote ==
    /\ SplitVote
    /\ env = [elections |-> <<1, 1, 0, 0>>,
              heartbeats |-> <<NoLimit, NoLimit, NoLimit, NoLimit>>,
              commands |-> <<0, 0, 0, 0>>, shutdowns |-> 0, rejects |-> 0,
              links |-> AllLinks(4), steps |-> NoLimit]

NextSplitVote ==
    \/ \E n \in NodeIds : ElectionTimer(n)
    \/ Deliver
    \/ \E n \in NodeIds : HeartbeatInterval(n)

FairSplitVote ==
    /\ InitSplitVote
    /\ [][NextSplitVote]_vars
    /\ WF_vars(Deliver)
    /\ WF_vars(\E n \in NodeIds : HeartbeatInterval(n))
    /\ WF_vars(\E n \in NodeIds : ElectionTimer(n))

\* A 4-node cluster on a slow network (networkDelay is configurable): the
\* election timers of nodes 0 and 1 expire twice each, whether or not the
\* RequestVotes of the term before have arrived.  Only the links the two
\* candidates and their voters use are followed, as in SpecFourElection;
\* every message on them is delivered, and the run does not end.
InitSlowVote ==
    RaftCluster(4, [elections |-> <<2, 2, 0, 0>>,
                    heartbeats |-> <<NoLimit, NoLimit, NoLimit, NoLimit>>,
                    commands |-> <<0, 0, 0, 0>>, shutdowns |-> 0, rejects |-> 0,
                    links |-> {<<0, 2>>, <<0, 3>>, <<1, 2>>, <<1, 3>>, <<2, 0>>, <<3, 1>>},
                    steps |-> NoLimit])

NextSlowVote ==
    \/ \E n \in NodeIds : ElectionTimeout(n)
    \/ Deliver
    \/ \E n \in NodeIds : HeartbeatInterval(n)

\* Every Leader's own heartbeat interval ticks.
FairSlowVote ==
    /\ InitSlowVote
    /\ [][NextSlowVote]_vars
    /\ WF_vars(Deliver)
    /\ \A n \in 0 .. 3 : WF_vars(HeartbeatInterval(n))
    /\ WF_vars(\E n \in NodeIds : ElectionTimeout(n))

\* The run continues from TwinLeaders with every link delivering: node 0
\* sends one round of heartbeats and the election timer of node 1 may expire.
InitTwinHeartbeat ==
    /\ TwinLeaders
    /\ env = [elections |-> <<0, 1, 0, 0>>, heartbeats |-> <<1, 0, 0, 0>>,
              commands |-> <<0, 0, 0, 0>>, shutdowns |-> 0, rejects |-> 0,
              links |-> AllLinks(4), steps |-> TwinHeartbeatSteps]

NextHeartbeat ==
    \/ NextElection
    \/ \E n \in NodeIds : HeartbeatTimeout(n)

SpecTwinHeartbeat == InitTwinHeartbeat /\ [][NextHeartbeat]_vars

\* A cluster of 1 to MaxNodes nodes in which the election timer of node 0
\* expires, up to MaxSoloElections times and as its length allows, every
\* message is delivered, and the run does not end.
InitAnySize ==
    \E nodeCount \in 1 .. MaxNodes :
        RaftCluster(nodeCount,
            [elections |-> [n \in 1 .. nodeCount |-> IF n = 1 THEN MaxSoloElections ELSE 0],
             heartbeats |-> [n \in 1 .. nodeCount |-> NoLimit],
             commands |-> [n \in 1 .. nodeCount |-> 0], shutdowns |-> 0, rejects |-> 0,
             links |-> AllLinks(nodeCount), steps |-> NoLimit])

NextAnySize ==
    \/ \E n \in NodeIds : ElectionTimer(n)
    \/ Deliver
    \/ \E n \in NodeIds : HeartbeatInterval(n)

FairAnySize ==
    /\ InitAnySize
    /\ [][NextAnySize]_vars
    /\ WF_vars(Deliver)
    /\ WF_vars(\E n \in NodeIds : HeartbeatInterval(n))
    /\ WF_vars(\E n \in NodeIds : ElectionTimer(n))

\* The run of SpecSecondTwin with one round of heartbeats of node 0 as well.
InitTwinCrash ==
    /\ LeaderWithTwoEntries
    /\ env = [elections |-> <<1, 2, 0, 0>>, heartbeats |-> <<1, 1, 0, 0>>,
              commands |-> <<0, 1, 0, 0>>, shutdowns |-> 0, rejects |-> 0,
              links |-> {<<0, 2>>, <<1, 0>>, <<1, 2>>, <<1, 3>>, <<2, 0>>, <<3, 1>>},
              steps |-> TwinCrashSteps]

SpecTwinCrash == InitTwinCrash /\ [][NextClient]_vars

\* The run continues from FirstLeader: node 0 takes two commands and sends one
\* round of heartbeats, the election timer of node 1 expires, and node 1
\* takes a command and sends one round of heartbeats.  Nodes 0 and 2 do not
\* reach each other.
InitCommitted ==
    /\ FirstLeader
    /\ env = [elections |-> <<0, 1, 0>>, heartbeats |-> <<1, 1, 0>>,
              commands |-> <<2, 1, 0>>, shutdowns |-> 0, rejects |-> 0,
              links |-> AllLinks(3) \ {<<0, 2>>, <<2, 0>>}, steps |-> CommittedSteps]

SpecCommitted == InitCommitted /\ [][NextClient]_vars

\* A 5-node cluster where the election timers of nodes 0 and 1 expire once
\* each and nothing else happens; the links listed deliver within the run.
InitFiveElection ==
    RaftCluster(5, [elections |-> <<1, 1, 0, 0, 0>>, heartbeats |-> <<0, 0, 0, 0, 0>>,
                    commands |-> <<0, 0, 0, 0, 0>>, shutdowns |-> 0, rejects |-> 0,
                    links |-> {<<0, 2>>, <<0, 3>>, <<0, 4>>, <<2, 0>>, <<3, 0>>, <<4, 0>>,
                               <<1, 3>>, <<1, 4>>, <<3, 1>>, <<1, 0>>},
                    steps |-> FiveElectionSteps])

SpecFiveElection == InitFiveElection /\ [][NextElection]_vars

\* A state of the 5-node cluster reached under SpecFiveElection: node 0 is
\* Leader of term 1 on the votes of nodes 2 and 3 and its first heartbeats are
\* answered, node 1 is Candidate of term 1, and the RequestVotes of both for
\* node 4 are still on their way.
FiveNodeFirstLeader ==
    /\ nodes = [n \in 0 .. 4 |->
          IF n = 0
          THEN [RaftNode EXCEPT !.currentState = LEADER, !.currentTerm = 1,
                               !.votedFor = 0, !.electionTimer = FALSE,
                               !.heartbeatTimer = TRUE,
                               !.nextIndex = [p \in 1 .. 4 |-> 0],
                               !.matchIndex = [p \in 1 .. 4 |-> -1]]
          ELSE IF n = 1
          THEN [RaftNode EXCEPT !.currentState = CANDIDATE, !.currentTerm = 1,
                               !.votedFor = 1]
          ELSE IF n = 4
          THEN [RaftNode EXCEPT !.currentTerm = 1]
          ELSE [RaftNode EXCEPT !.currentTerm = 1, !.votedFor = 0]]
    /\ votes = [n \in 0 .. 4 |-> IF n = 0 THEN {0, 2, 3} ELSE IF n = 1 THEN {1} ELSE {}]
    /\ network = SetToBag({[type |-> REQUEST_VOTE, from |-> c, to |-> 4, term |-> 1,
                            candidateId |-> c, lastLogIndex |-> -1, lastLogTerm |-> 0]
                           : c \in {0, 1}})
    /\ calls = << >>
    /\ crashed = FALSE
    /\ granted = {<<0, 0, 1>>, <<1, 1, 1>>, <<2, 0, 1>>, <<3, 0, 1>>}
    /\ elected = {[node |-> 0, term |-> 1, tally |-> {0, 2, 3}]}
    /\ committed = {}
    /\ stopped = {}

\* The run continues from FiveNodeFirstLeader: node 0 takes two commands and
\* sends one round of heartbeats, the election timer of node 1 expires once
\* more, and node 1 takes a command and sends one round of heartbeats.  Node 0
\* reaches nodes 2 and 4, node 1 reaches nodes 0, 3 and 4.
InitFiveCommit ==
    /\ FiveNodeFirstLeader
    /\ env = [elections |-> <<0, 1, 0, 0, 0>>, heartbeats |-> <<1, 1, 0, 0, 0>>,
              commands |-> <<2, 1, 0, 0, 0>>, shutdowns |-> 0, rejects |-> 0,
              links |-> {<<0, 2>>, <<0, 4>>, <<2, 0>>, <<4, 0>>,
                         <<1, 3>>, <<1, 4>>, <<3, 1>>, <<1, 0>>},
              steps |-> FiveCommitSteps]

SpecFiveCommit == InitFiveCommit /\ [][NextClient]_vars

\* --------------------------------------------------------------- claims
\* C1: election safety: for every term T at most one node is ever Leader with
\* currentTerm = T.
ElectionSafety == \A a, b \in elected : a.term = b.term => a.node = b.node

\* C1: the state in which the two candidates of term 2 have both become Leader
\* and every message has been handled.
TwoLeadersOfOneTerm == TwinLeaders

\* C2: a node that becomes Leader in term T was granted the vote of at least
\* floor(N/2)+1 distinct nodes, itself included, in term T, and its tally holds
\* no voter whose grant was for an earlier term.
MajorityGrantedInTerm ==
    \A e \in elected :
        /\ Cardinality({v \in NodeIds : <<v, e.node, e.term>> \in granted}) >= votesNeeded
        /\ \A v \in e.tally : <<v, e.node, e.term>> \in granted

\* C3: within one term a node grants its vote (to itself or another node) to
\* at most one candidate.
OneVotePerTerm ==
    \A g, h \in granted : (g[1] = h[1] /\ g[3] = h[3]) => g[2] = h[2]

\* C4: state-machine safety: the logs of two nodes hold the same entry at
\* every index that is <= commitIndex on both, and no two nodes apply
\* different entries at the same index.
StateMachineSafety ==
    \A a, b \in NodeIds :
        /\ \A i \in 0 .. nodes[a].commitIndex :
              (i <= nodes[b].commitIndex /\ hasEntry(nodes[a], i) /\ hasEntry(nodes[b], i))
                  => getEntry(nodes[a], i) = getEntry(nodes[b], i)
        /\ \A i \in 1 .. Len(nodes[a].applied) :
              i <= Len(nodes[b].applied) => nodes[a].applied[i] = nodes[b].applied[i]

\* C5: leader completeness: an entry committed at index i is at index i in
\* the log of every node that is Leader in a later term.
LeaderCompleteness ==
    \A c \in committed : \A n \in NodeIds :
        (nodes[n].currentState = LEADER /\ nodes[n].currentTerm > c.term)
            => (hasEntry(nodes[n], c.index) /\ getEntry(nodes[n], c.index) = c.entry)

\* C6: log matching: if the logs of two nodes hold an entry of the same term
\* at index i, the logs are identical at every index j <= i.
LogMatching ==
    \A a, b \in NodeIds : \A i \in 1 .. Len(nodes[a].log) :
        (i <= Len(nodes[b].log) /\ nodes[a].log[i].term = nodes[b].log[i].term)
            => SubSeq(nodes[a].log, 1, i) = SubSeq(nodes[b].log, 1, i)

\* C7: a submitCommand call that resolves with success and index i finds the
\* command it submitted committed at index i.
ResolvedIsOwn ==
    \A i \in DOMAIN calls :
        calls[i].status = "resolved" => calls[i].seen = calls[i].command

\* C8: a call whose node stopped being Leader before the entry committed
\* completes with an error: it is never reported as a success.
LostCallFails ==
    \A i \in DOMAIN calls : calls[i].lost => calls[i].status # "resolved"

\* Nothing is left to run: no message in flight, no election timer and no
\* heartbeat interval armed on any node.  Only the calls' polling goes on.
Quiescent ==
    /\ network = EmptyBag
    /\ \A n \in NodeIds : /\ ~nodes[n].electionTimer
                          /\ ~nodes[n].heartbeatTimer
                          /\ nodes[n].leakedHeartbeats = 0

\* C9: every submitCommand call eventually completes: no call is still
\* pending once nothing but its own polling is left to run.
NoCallPendingForever ==
    Quiescent => \A i \in DOMAIN calls : calls[i].status # "pending"

\* C10: currentTerm of every node is non-decreasing across every step.
TermNonDecreasing ==
    [][\A n \in NodeIds : nodes'[n].currentTerm >= nodes[n].currentTerm]_vars

\* C10: a node started an election in term 2 and another node adopted term 2
\* from its message.
TermTwoAdopted ==
    \E n, k \in NodeIds :
        /\ <<n, n, 2>> \in granted
        /\ k # n
        /\ nodes[k].currentTerm = 2
        /\ <<k, k, 2>> \notin granted

CommitImpliesMajority ==
    [][\A n \in NodeIds :
          (/\ nodes[n].currentState = LEADER
           /\ nodes'[n].currentState = LEADER
           /\ nodes'[n].commitIndex > nodes[n].commitIndex
           /\ \E m \in BagToSet(network) :
                 /\ m.type = APPEND_ENTRIES_RESPONSE /\ m.to = n
                 /\ network' = network (-) SetToBag({m}))
          => LET i == nodes'[n].commitIndex
                 holders == {f \in Others(n) : nodes'[n].matchIndex[f] >= i}
                            \cup (IF getLastLogIndex(nodes'[n]) >= i THEN {n} ELSE {})
             IN  2 * Cardinality(holders) > getNodeCount]_vars

\* C12: a Leader of the 4-node cluster has committed index 0 after two of
\* its three followers reported it.
CommittedByThreeOfFour ==
    \E n \in NodeIds :
        /\ getNodeCount = 4
        /\ nodes[n].currentState = LEADER
        /\ nodes[n].commitIndex = 0
        /\ Cardinality({f \in Others(n) : nodes[n].matchIndex[f] >= 0}) = 2

\* C13: a Leader that handles an AppendEntries response advances commitIndex
\* only to an index whose entry has the Leader's currentTerm; entries of
\* earlier terms are committed only along with such an entry.
CommitOnlyCurrentTerm ==
    [][\A n \in NodeIds :
          (/\ nodes[n].currentState = LEADER
           /\ nodes'[n].currentState = LEADER
           /\ nodes'[n].commitIndex > nodes[n].commitIndex
           /\ \E m \in BagToSet(network) :
                 /\ m.type = APPEND_ENTRIES_RESPONSE /\ m.to = n
                 /\ network' = network (-) SetToBag({m}))
          => /\ hasEntry(nodes'[n], nodes'[n].commitIndex)
             /\ getEntry(nodes'[n], nodes'[n].commitIndex).term = nodes'[n].currentTerm]_vars

\* C13: the Leader of term 2 holds an entry of term 1 that a majority has
\* reported, and has not committed it.
OldTermEntryHeldBack ==
    \E n \in NodeIds :
        /\ nodes[n].currentState = LEADER
        /\ nodes[n].currentTerm = 2
        /\ majorityIndex(nodes[n]) > nodes[n].commitIndex
        /\ getEntry(nodes[n], majorityIndex(nodes[n])).term = 1

\* C14: on every node the 'commandApplied' callback fires once per log
\* index, in increasing index order without gaps, only for indices <=
\* commitIndex, and with the entry stored at that index when it fires.
AppliedOncePerIndexInOrder ==
    [][\A n \in NodeIds :
          LET old == nodes[n].applied
              new == nodes'[n].applied
          IN  /\ Len(new) >= Len(old)
              /\ SubSeq(new, 1, Len(old)) = old
              /\ Len(new) = nodes'[n].lastApplied + 1
              /\ nodes'[n].lastApplied <= nodes'[n].commitIndex
              /\ \A i \in (Len(old) + 1) .. Len(new) :
                    /\ hasEntry(nodes'[n], i - 1)
                    /\ new[i] = getEntry(nodes'[n], i - 1)
                    /\ new[i].index = i - 1]_vars

\* C14: a node has applied two entries that were committed in one step: the
\* entry of term 1 at index 0 was committed only in term 2.
TwoEntriesAppliedAtOnce ==
    \E n \in NodeIds :
        /\ Len(nodes[n].applied) = 2
        /\ nodes[n].applied[1].term = 1
        /\ \A c \in committed : c.term = 2

\* C15: a node whose shutdown() has returned has no election timer and no
\* heartbeat interval running at any later time, also after messages that
\* were in flight at the shutdown are delivered.
StoppedNodesHaveNoTimers ==
    \A n \in stopped : /\ ~nodes[n].electionTimer
                       /\ ~nodes[n].heartbeatTimer
                       /\ nodes[n].leakedHeartbeats = 0

\* C16: a node in any role that receives a RequestVote or AppendEntries with
\* a term greater than its currentTerm adopts the term, clears votedFor and
\* becomes Follower before it evaluates the grant or the consistency check:
\* the vote then depends on the logs alone, and votedFor ends as the
\* candidate granted or as null.
GreaterTermAdoptedFirst ==
    [][\A m \in BagToSet(network) :
          LET n == m.to
              s == nodes[n]
              t == nodes'[n]
          IN  /\ (DeliverRequestVote(m) /\ m.term > s.currentTerm)
                    => LET grant == candidateLogUpToDate(s, m.lastLogIndex, m.lastLogTerm)
                       IN  /\ t.currentTerm = m.term
                           /\ t.currentState = FOLLOWER
                           /\ ~t.heartbeatTimer /\ t.electionTimer
                           /\ t.votedFor = IF grant THEN m.candidateId ELSE Null
                           /\ (<<n, m.candidateId, m.term>> \in granted') = grant
              /\ (DeliverAppendEntries(m) /\ m.term > s.currentTerm)
                    => /\ t.currentTerm = m.term
                       /\ t.currentState = FOLLOWER
                       /\ ~t.heartbeatTimer /\ t.electionTimer
                       /\ t.votedFor = Null
                       /\ (Len(t.log) > Len(s.log) => m.entries # << >>)]_vars

\* C16: a Leader, which voted for itself, is about to receive an
\* AppendEntries of a term greater than its own.
GreaterTermReachesLeader ==
    /\ env.steps > 0
    /\ \E m \in BagToSet(network) :
          /\ m.type = APPEND_ENTRIES
          /\ nodes[m.to].currentState = LEADER
          /\ m.term > nodes[m.to].currentTerm
          /\ nodes[m.to].votedFor = m.to

\* C17: handleRequestVote grants the vote if and only if the request's term
\* is >= the receiver's currentTerm, the receiver (once it has adopted a greater
\* term) has voted for nobody or for this candidate, and the candidate's
\* (lastLogTerm, lastLogIndex) is lexicographically >= the receiver's, an
\* empty log counting as term 0 and index -1; on a grant votedFor becomes the
\* candidate.
VoteGrantedIff ==
    [][\A m \in BagToSet(network) :
          DeliverRequestVote(m) =>
              LET s == nodes[m.to]
                  t == nodes'[m.to]
                  lastIndex == Len(s.log) - 1
                  lastTerm == IF s.log = << >> THEN 0 ELSE s.log[Len(s.log)].term
                  free == IF m.term > s.currentTerm THEN TRUE
                          ELSE s.votedFor = Null \/ s.votedFor = m.candidateId
                  iff == /\ m.term >= s.currentTerm
                         /\ free
                         /\ \/ m.lastLogTerm > lastTerm
                            \/ (m.lastLogTerm = lastTerm /\ m.lastLogIndex >= lastIndex)
              IN  /\ \E r \in BagToSet(network') :
                        /\ r.type = REQUEST_VOTE_RESPONSE
                        /\ r.from = m.to /\ r.to = m.from
                        /\ r.voteGranted = iff
                  /\ iff => t.votedFor = m.candidateId
                  /\ ~iff => t.votedFor = IF m.term > s.currentTerm THEN Null
                                          ELSE s.votedFor]_vars

\* C17: the vote was granted by a receiver whose log is longer than the
\* candidate's, the candidate's last entry being of a later term.
GrantedOnLaterLastTerm ==
    \E r \in BagToSet(network) :
        /\ r.type = REQUEST_VOTE_RESPONSE /\ r.voteGranted
        /\ nodes[r.from].votedFor = r.to
        /\ Len(nodes[r.from].log) > Len(nodes[r.to].log)
        /\ getLastLogTerm(nodes[r.to]) > getLastLogTerm(nodes[r.from])

\* C18: RaftCluster.submitCommand, called when no node is Leader, fails with
\* the 'no leader' error and leaves the log, the term and the commitIndex of
\* every node unchanged.
NoLeaderError ==
    [][(ClusterSubmitCommand /\ \A n \in NodeIds : nodes[n].currentState # LEADER)
          => /\ Len(calls') = Len(calls) + 1
             /\ calls'[Len(calls')].status = "rejected"
             /\ calls'[Len(calls')].error = "No leader elected"
             /\ \A n \in NodeIds : /\ nodes'[n].log = nodes[n].log
                                   /\ nodes'[n].currentTerm = nodes[n].currentTerm
                                   /\ nodes'[n].commitIndex = nodes[n].commitIndex]_vars

\* C18: the cluster has turned a call away with 'No leader elected'; a node
\* is Candidate and none has been Leader.
RejectedForNoLeader ==
    /\ \E i \in DOMAIN calls : calls[i].error = "No leader elected"
    /\ \E n \in NodeIds : nodes[n].currentState = CANDIDATE
    /\ elected = {}

\* C19: client commands enter a log only through a node that is Leader when
\* called: a call on a Follower or Candidate fails without appending anything,
\* a call on a Leader appends exactly one entry, of the Leader's currentTerm
\* and with the previous log length as index, at the end of its own log, and
\* every entry of every log stems from such a call.
CommandsOnlyThroughLeader ==
    [][/\ Len(calls') = Len(calls) + 1 =>
             LET c == calls'[Len(calls')]
             IN  IF c.status = "rejected"
                 THEN /\ nodes' = nodes
                      /\ c.error = "Not the leader"
                            => nodes[c.node].currentState \in {FOLLOWER, CANDIDATE}
                 ELSE /\ nodes[c.node].currentState = LEADER
                      /\ nodes'[c.node].log =
                            Append(nodes[c.node].log,
                                   [term |-> nodes[c.node].currentTerm,
                                    command |-> c.command,
                                    index |-> Len(nodes[c.node].log)])
                      /\ c.index = Len(nodes[c.node].log)
                      /\ \A k \in NodeIds \ {c.node} : nodes'[k] = nodes[k]
       /\ \A n \in NodeIds : \A i \in 1 .. Len(nodes'[n].log) :
             LET e == nodes'[n].log[i]
             IN  /\ e.command \in DOMAIN calls'
                 /\ calls'[e.command].status # "rejected"
                 /\ calls'[e.command].index = e.index
                 /\ \E l \in elected' : l.node = calls'[e.command].node /\ l.term = e.term]_vars

\* C19: calls on two different nodes that were not Leader were turned away
\* with 'Not the leader', and two calls on the Leader appended entries 0 and 1.
CallsOnEveryRole ==
    /\ Cardinality({i \in DOMAIN calls : calls[i].error = "Not the leader"}) = 2
    /\ \E i, j \in DOMAIN calls : /\ calls[i].error = "Not the leader"
                                  /\ calls[j].error = "Not the leader"
                                  /\ calls[i].node # calls[j].node
    /\ \E n \in NodeIds : /\ nodes[n].currentState = LEADER
                          /\ Len(nodes[n].log) = 2

\* C20: while the partition lasts, no node on the side with fewer than
\* floor(N/2)+1 nodes becomes Leader, whatever was exchanged before it began.
MinorityNeverBecomesLeader ==
    [][Partitioned =>
          \A n \in MinoritySide :
              nodes'[n].currentState = LEADER => nodes[n].currentState = LEADER]_vars

\* The messages the handling of message m adds to the network in this step
Sent(m) == BagToSet(network' (-) (network (-) SetToBag({m})))

\* C25: an AppendEntries with term >= currentTerm that fails the consistency
\* check (prevLogIndex >= 0 and the receiver has no entry there, or one of
\* another term) leaves the receiver's log and commitIndex unchanged and is
\* answered with success = false.
FailedCheckChangesNoLog ==
    [][\A m \in BagToSet(network) :
          (/\ DeliverAppendEntries(m)
           /\ m.term >= nodes[m.to].currentTerm
           /\ m.prevLogIndex >= 0
           /\ \/ m.prevLogIndex >= Len(nodes[m.to].log)
              \/ nodes[m.to].log[m.prevLogIndex + 1].term # m.prevLogTerm)
          => /\ nodes'[m.to].log = nodes[m.to].log
             /\ nodes'[m.to].commitIndex = nodes[m.to].commitIndex
             /\ Sent(m) # {}
             /\ \A r \in Sent(m) :
                    /\ r.type = APPEND_ENTRIES_RESPONSE
                    /\ r.to = m.from
                    /\ r.success = FALSE]_vars

\* C25: a failure response in the Leader's own term from a receiver that has
\* an entry at prevLogIndex: the check failed on the entry's term.
FailedOnTermMismatch ==
    \E r \in BagToSet(network) :
        /\ r.type = APPEND_ENTRIES_RESPONSE
        /\ ~r.success
        /\ nodes[r.to].currentState = LEADER
        /\ r.term = nodes[r.to].currentTerm
        /\ nodes[r.to].nextIndex[r.from] >= 1
        /\ nodes[r.to].nextIndex[r.from] <= Len(nodes[r.from].log)

\* C26: an AppendEntries whose term is lower than the receiver's currentTerm
\* is answered with success = false and the receiver's currentTerm, and the
\* receiver's role, currentTerm, votedFor, log and commitIndex stay as they
\* were.
StaleAppendEntriesRejected ==
    [][\A m \in BagToSet(network) :
          (DeliverAppendEntries(m) /\ m.term < nodes[m.to].currentTerm)
          => /\ nodes'[m.to].currentState = nodes[m.to].currentState
             /\ nodes'[m.to].currentTerm = nodes[m.to].currentTerm
             /\ nodes'[m.to].votedFor = nodes[m.to].votedFor
             /\ nodes'[m.to].log = nodes[m.to].log
             /\ nodes'[m.to].commitIndex = nodes[m.to].commitIndex
             /\ Sent(m) # {}
             /\ \A r \in Sent(m) :
                    /\ r.type = APPEND_ENTRIES_RESPONSE
                    /\ r.to = m.from
                    /\ r.success = FALSE
                    /\ r.term = nodes[m.to].currentTerm]_vars

\* C26: a failure response that carries a term above that of the Leader it
\* answers: the Leader's AppendEntries was stale.
StaleLeaderAnswered ==
    \E r \in BagToSet(network) :
        /\ r.type = APPEND_ENTRIES_RESPONSE
        /\ ~r.success
        /\ nodes[r.to].currentState = LEADER
        /\ r.term > nodes[r.to].currentTerm
        /\ r.term = nodes[r.from].currentTerm

AppendedEntriesAreSent ==
    [][\A m \in BagToSet(network) :
          (DeliverAppendEntries(m) /\ \E r \in Sent(m) : r.success)
          => LET old == nodes[m.to].log
                 new == nodes'[m.to].log
                 first == m.prevLogIndex + 1
                 conflicts == {i \in 1 .. Len(m.entries) :
                                  /\ first + i <= Len(old)
                                  /\ old[first + i].term # m.entries[i].term}
             IN  /\ Len(new) >= first + Len(m.entries)
                 /\ \A i \in 1 .. Len(m.entries) : new[first + i] = m.entries[i]
                 /\ IF conflicts = {}
                    THEN SubSeq(new, 1, Len(old)) = old
                    ELSE LET c == CHOOSE i \in conflicts : \A j \in conflicts : i <= j
                         IN  /\ SubSeq(new, 1, first + c - 1) = SubSeq(old, 1, first + c - 1)
                             /\ Len(new) = first + Len(m.entries)]_vars

\* C29: while a node stays Leader in one term, matchIndex[f] never gets lower
\* for any follower f, whatever the order in which success responses arrive,
\* and after a success response from f is handled nextIndex[f] = matchIndex[f] + 1.
MatchIndexOnlyAdvances ==
    [][/\ \A n \in NodeIds :
             (/\ nodes[n].currentState = LEADER
              /\ nodes'[n].currentState = LEADER
              /\ nodes'[n].currentTerm = nodes[n].currentTerm)
             => \A f \in DOMAIN nodes[n].matchIndex :
                    nodes'[n].matchIndex[f] >= nodes[n].matchIndex[f]
       /\ \A m \in BagToSet(network) :
             (/\ DeliverAppendEntriesResponse(m)
              /\ m.success
              /\ nodes[m.to].currentState = LEADER
              /\ m.term = nodes[m.to].currentTerm
              /\ ~crashed')
             => nodes'[m.to].nextIndex[m.from] = nodes'[m.to].matchIndex[m.from] + 1]_vars

\* C30: on a failure response in its current term the Leader lowers
\* nextIndex[follower] by one, not below 0, and resends AppendEntries with the
\* earlier prevLogIndex; and a Leader's nextIndex[f] is always within
\* 0 .. length of its log, so prevLogTerm is read from an entry that exists.
NextIndexBacksOffByOne ==
    [][/\ \A m \in BagToSet(network) :
             (/\ DeliverAppendEntriesResponse(m)
              /\ ~m.success
              /\ nodes[m.to].currentState = LEADER
              /\ m.term = nodes[m.to].currentTerm)
             => LET was == nodes[m.to].nextIndex[m.from]
                    now == IF was - 1 > 0 THEN was - 1 ELSE 0
                IN  /\ ~crashed'
                    /\ nodes'[m.to].nextIndex[m.from] = now
                    /\ \E a \in Sent(m) :
                           /\ a.type = APPEND_ENTRIES
                           /\ a.to = m.from
                           /\ a.prevLogIndex = now - 1
       /\ \A n \in NodeIds :
             nodes'[n].currentState = LEADER
             => \A f \in DOMAIN nodes'[n].nextIndex :
                    /\ nodes'[n].nextIndex[f] >= 0
                    /\ nodes'[n].nextIndex[f] <= Len(nodes'[n].log)]_vars

\* Node n has applied the entry of call i at the call's index
AppliedOn(n, i) ==
    /\ Len(calls) >= i
    /\ Len(nodes[n].applied) > calls[i].index
    /\ nodes[n].applied[calls[i].index + 1] =
           LogEntry(nodes[calls[i].node].log[calls[i].index + 1].term,
                    calls[i].command, calls[i].index)

\* C21: in a fault-free run every command whose submitCommand has returned
\* its index is eventually applied, as that very entry, on all nodes.
ResolvedAppliedEverywhere ==
    \A i \in 1 .. FaultFreeCalls :
        (Len(calls) >= i /\ calls[i].status = "resolved")
        ~> (\A n \in NodeIds : AppliedOn(n, i))

\* C21: the last call has returned and its entry is applied on every node
LastCallAppliedEverywhere ==
    /\ Len(calls) = FaultFreeCalls
    /\ calls[FaultFreeCalls].status = "resolved"
    /\ \A n \in NodeIds : AppliedOn(n, FaultFreeCalls)

\* Node l, not node n, is the only Leader, in a term above every term in
\* which node n was elected.
OtherSoleLeader(n) ==
    \E l \in NodeIds \ {n} :
        /\ nodes[l].currentState = LEADER
        /\ \A k \in NodeIds \ {l} : nodes[k].currentState # LEADER
        /\ \A e \in elected : e.node = n => nodes[l].currentTerm > e.term
        /\ getLeader = l

\* No Leader sends heartbeats and no election timer that is set may expire
\* any more in this run.
ElectionsExhausted ==
    /\ ~LeaderAlive
    /\ \A n \in NodeIds : nodes[n].electionTimer => env.elections[n + 1] = 0

\* C22: after the Leader is shut down, eventually one of the other nodes is
\* the only Leader, in a higher term, and is the node getLeader reports
\* (unless the election timers of this run are used up first).
FailoverToAnotherNode ==
    \A n \in 0 .. 2 :
        (n \in stopped) ~> (OtherSoleLeader(n) \/ ElectionsExhausted)

\* Log a is an initial part of log b
IsPrefix(a, b) == Len(a) <= Len(b) /\ SubSeq(b, 1, Len(a)) = a

HoldsLeaderLog(f) ==
    /\ IsPrefix(nodes[1].log, nodes[f].log)
    /\ nodes[f].commitIndex >= nodes[1].commitIndex

SplitVoteOver ==
    \E g, h \in granted :
        /\ g[1] = g[2] /\ h[1] = h[2] /\ g[1] # h[1] /\ g[3] = h[3]
        /\ nodes[g[1]].currentTerm > g[3] /\ nodes[h[1]].currentTerm > g[3]
        /\ \A e \in elected : e.term # g[3]

ExactlyOneLeader == Cardinality({n \in NodeIds : nodes[n].currentState = LEADER}) = 1

\* C24: after a split vote the Candidates time out and stand again in later
\* terms, and from some point on exactly one node is Leader (unless the
\* election timers of this run are used up first).
SplitVoteEndsWithOneLeader ==
    SplitVoteOver ~> [](ExactlyOneLeader \/ ElectionsExhausted)

\* The changes of role the protocol allows
AllowedTransitions ==
    {<<FOLLOWER, CANDIDATE>>, <<CANDIDATE, LEADER>>, <<CANDIDATE, FOLLOWER>>,
     <<LEADER, FOLLOWER>>}

\* C31: a node changes role only Follower->Candidate, Candidate->Leader,
\* Candidate->Follower or Leader->Follower: it becomes Leader only from
\* Candidate, and a Leader never becomes Candidate.
RoleTransitions ==
    [][\A n \in NodeIds :
          nodes[n].currentState # nodes'[n].currentState
          => <<nodes[n].currentState, nodes'[n].currentState>> \in AllowedTransitions]_vars

\* Node c is a Candidate and a majority of the nodes (its own vote included)
\* has voted for it in its current term.
MajorityHeld(c) ==
    /\ nodes[c].currentState = CANDIDATE
    /\ Cardinality({v \in NodeIds : <<v, c, nodes[c].currentTerm>> \in granted}) >= votesNeeded

OneResponse(out, m, responseType) ==
    /\ Cardinality(out) = 1
    /\ \A r \in out : r.type = responseType /\ r.from = m.to /\ r.to = m.from

\* Every RequestVote and AppendEntries in flight is answered, when it is
\* delivered, by one response to its sender carrying voteGranted / success.
RequestsGetOneResponse ==
    \A m \in BagToSet(network) :
        /\ m.type = REQUEST_VOTE =>
               LET out == handleRequestVote(nodes[m.to], m.to, m).out
               IN  OneResponse(out, m, REQUEST_VOTE_RESPONSE)
                   /\ \A r \in out : r.voteGranted \in BOOLEAN
        /\ m.type = APPEND_ENTRIES =>
               LET out == handleAppendEntries(nodes[m.to], m.to, m).out
               IN  OneResponse(out, m, APPEND_ENTRIES_RESPONSE)
                   /\ \A r \in out : r.success \in BOOLEAN

\* C33: every RequestVote and AppendEntries delivered gets exactly one
\* response to its sender, a denial or failure being voteGranted = FALSE or
\* success = FALSE, and no handler or timer callback ever throws.
RequestsAnsweredNothingThrows == RequestsGetOneResponse /\ ~crashed

\* C34: an election-timer expiry makes the node Candidate with currentTerm
\* one higher and votedFor its own id, and a Candidate or Leader always has
\* votedFor equal to its own id.
CandidateVotesForSelf ==
    /\ [](\A n \in NodeIds :
             nodes[n].currentState \in {CANDIDATE, LEADER} => nodes[n].votedFor = n)
    /\ [][\A n \in NodeIds :
             ElectionTimeout(n)
             => /\ nodes'[n].currentState = CANDIDATE
                /\ nodes'[n].currentTerm = nodes[n].currentTerm + 1
                /\ nodes'[n].votedFor = n]_vars

\* C34: node 1 stands in term 2, after node 0 stood in term 1, and has voted
\* for itself
SecondCandidateVotedSelf ==
    /\ nodes[1].currentState = CANDIDATE
    /\ nodes[1].currentTerm = 2
    /\ nodes[1].votedFor = 1
    /\ <<0, 0, 1>> \in granted

\* C35: on every node the entry stored at position k has index field k, and
\* the terms of the entries do not decrease along the log.
LogContiguous ==
    \A n \in NodeIds :
        \A k \in 1 .. Len(nodes[n].log) :
            /\ nodes[n].log[k].index = k - 1
            /\ k > 1 => nodes[n].log[k - 1].term <= nodes[n].log[k].term

\* C35: node 0 has had its entry of term 1 replaced by the entry node 1 took
\* as Leader of term 2
ConflictingEntryReplaced ==
    \E i, j \in DOMAIN calls :
        /\ i < j
        /\ calls[i].node = 0 /\ calls[i].index = 0
        /\ calls[j].node = 1 /\ calls[j].index = 0
        /\ \E e \in elected : e.node = 0 /\ e.term = 1
        /\ Len(nodes[0].log) = 1
        /\ nodes[0].log[1] = LogEntry(2, calls[j].command, 0)

\* C36: while a node is Leader no entry of its log is deleted or replaced:
\* its log only grows at the end.
LeaderAppendOnly ==
    [][\A n \in NodeIds :
          (nodes[n].currentState = LEADER /\ nodes'[n].currentState = LEADER)
          => IsPrefix(nodes[n].log, nodes'[n].log)]_vars

\* C37: on every node -1 <= lastApplied <= commitIndex <= index of the last
\* log entry: no committed index is cut off the log.
AppliedCommittedWithinLog ==
    \A n \in NodeIds :
        /\ -1 <= nodes[n].lastApplied
        /\ nodes[n].lastApplied <= nodes[n].commitIndex
        /\ nodes[n].commitIndex <= getLastLogIndex(nodes[n])

====
